---- MODULE Spec2Model ----
(***************************************************************************)
(* A model of the duke3d-file-utility readers:                             *)
(*   grp/src/lib.rs  GrpFileReader  (the flat .grp archive)                *)
(*   art/src/lib.rs  ArtFileReader  (the .art tile catalog)                *)
(*   src/main.rs     the grp-extract command                               *)
(*                                                                         *)
(* A byte source is a record [data, tail]: the bytes `data` followed by    *)
(* `tail` blocks of 65536 zero bytes (a sparse tail), so that very long    *)
(* sources stay representable.  Strings are sequences of code points.      *)
(*                                                                         *)
(* TLC's integers end at 2^31 - 1.  The archive reader's numbers are kept  *)
(* as integers: its 64-bit offset arithmetic cannot overflow, and the      *)
(* model's sources keep every count, size and offset below 2^31.  The      *)
(* catalog reader's u32 arithmetic can overflow, so its u32 values are     *)
(* kept at full width as two 16-bit limbs [hi, lo].                        *)
(***************************************************************************)
EXTENDS Integers, Sequences, FiniteSets, TLC

VARIABLES
    mode,        \* which program part this behaviour exercises: "grp", "art", "cli"
    build,       \* overflow checks of the build: "debug" (panic) or "release" (wrap)
    file,        \* the byte source, never changed by a reader
    opened,      \* a reader was constructed successfully
    file_count,  \* GrpFileReader.file_count
    pos,         \* the reader's logical cursor (bytes consumed / last seek)
    held,        \* the GrpFileEntry values the caller got from the reader
    argv,        \* the command line after the executable name (cli)
    result       \* what the last call returned

vars == <<mode, build, file, opened, file_count, pos, held, argv, result>>

\* ---------------------------------------------------------------- bounds

MaxEntries == 2
MaxDeclCount == 2
MaxPayload == 3
MaxVals == 4

\* ------------------------------------------------------- integer widths

Limb == 65536

\* a natural number hi * 2^16 + lo; a u32 has hi < 2^16
Wide(hi, lo) == [hi |-> hi + lo \div Limb, lo |-> lo % Limb]
WideOf(n) == Wide(0, n)
WideLe(a, b) == a.hi < b.hi \/ (a.hi = b.hi /\ a.lo <= b.lo)
WideLess(a, b) == a.hi < b.hi \/ (a.hi = b.hi /\ a.lo < b.lo)
WidePlus(a, b) == Wide(a.hi + b.hi, a.lo + b.lo)
WideTimes(a, k) == Wide(a.hi * k, a.lo * k)

ZeroU32 == WideOf(0)
MaxU32 == [hi |-> Limb - 1, lo |-> Limb - 1]

\* u32::wrapping_sub
wrapping_sub(a, b) ==
    LET borrow == IF a.lo < b.lo THEN 1 ELSE 0
    IN  [hi |-> (a.hi + Limb - b.hi - borrow) % Limb,
         lo |-> (a.lo + Limb - b.lo) % Limb]

\* u32::wrapping_add of a small natural k
wrapping_add(a, k) ==
    LET sum == Wide(a.hi, a.lo + k)
    IN  [hi |-> sum.hi % Limb, lo |-> sum.lo]

\* whether a + k leaves u32
add_overflows(a, k) == Wide(a.hi, a.lo + k).hi >= Limb

\* u32::from_le_bytes, for the archive reader (values below 2^31)
u32_from_le_bytes(b) ==
    b[1] + 256 * b[2] + 65536 * b[3] + 16777216 * b[4]

\* u32::from_le_bytes at full width, for the catalog reader
u32_limbs_from_le_bytes(b) ==
    [hi |-> b[3] + 256 * b[4], lo |-> b[1] + 256 * b[2]]

\* i16::from_le_bytes
i16_from_le_bytes(b) ==
    LET u == b[1] + 256 * b[2]
    IN  IF u >= 32768 THEN u - 65536 ELSE u

\* ---------------------------------------------------------- byte source

\* the length of the source, at full width
FileLenWide(f) == Wide(f.tail, Len(f.data))

\* the length of a source shorter than 2^31 bytes
FileLen(f) == Len(f.data) + f.tail * Limb

\* whether the source has `end` bytes or more
HasBytes(f, end) == WideLe(WideOf(end), FileLenWide(f))

\* the byte at 0-based offset p inside the source
ByteAt(f, p) == IF p < Len(f.data) THEN f.data[p + 1] ELSE 0

\* the n bytes at [p, p + n), which must lie inside the source
BytesAt(f, p, n) == [i \in 1..n |-> ByteAt(f, p + i - 1)]

\* Read::read_exact on the BufReader at cursor p: all n bytes or an error.
\* An empty buffer is filled at any cursor, past the end of the source too.
\* A short read consumes what is left, so the cursor ends at the end of the
\* source (a cursor already past the end stays where it is).
read_exact(f, p, n) ==
    IF n = 0 \/ HasBytes(f, p + n)
    THEN [ok |-> TRUE, bytes |-> BytesAt(f, p, n), pos |-> p + n]
    ELSE [ok |-> FALSE, bytes |-> <<>>,
          pos |-> IF p >= FileLen(f) THEN p ELSE FileLen(f)]

\* --------------------------------------------------------- GrpFileReader

\* b"KenSilverman"
FORMAT_DESIGNER_NAME == <<75, 101, 110, 83, 105, 108, 118, 101, 114, 109, 97, 110>>
FILE_COUNT_BYTES == 4
NameBytes == 12
SizeBytes == 4
EntryBytes == 16

ErrMagicRead == "Failed to read magic constant from .grp file."
\* the format string of the mismatch; a result carries its two arguments, the
\* bytes read and the constant, in that order (as bytes, before
\* String::from_utf8_lossy)
ErrMagicMismatch == "Magic constant \"{}\" does not match the magic \"{}\" read from the .grp file."
ErrFileCount == "Failed to read file count from .grp file. There are not enough bytes in the file for reading."
ErrFileName == "Failed to read file name from .grp file."
ErrFileSize == "Failed to read file size from .grp file."
ErrReadFile == "Failed to read file from .grp file."

\* the last step of GrpFileReader::new: c is the read of the file count
NewFromCount(c) ==
    IF ~c.ok
    THEN [tag |-> "Err", msg |-> ErrFileCount, args |-> <<>>, file_count |-> 0,
          pos |-> c.pos]
    ELSE [tag |-> "Ok", msg |-> "", args |-> <<>>,
          file_count |-> u32_from_le_bytes(c.bytes), pos |-> c.pos]

\* the magic compared only after the count was read
CountThenMagic(m, c) ==
    IF ~c.ok
    THEN [tag |-> "Err", msg |-> ErrFileCount, args |-> <<>>, file_count |-> 0,
          pos |-> c.pos]
    ELSE IF m.bytes # FORMAT_DESIGNER_NAME
    THEN [tag |-> "Err", msg |-> ErrMagicMismatch,
          args |-> <<m.bytes, FORMAT_DESIGNER_NAME>>, file_count |-> 0, pos |-> c.pos]
    ELSE [tag |-> "Ok", msg |-> "", args |-> <<>>,
          file_count |-> u32_from_le_bytes(c.bytes), pos |-> c.pos]

\* GrpFileReader::new, reordered: the count is read before the magic is compared
NewFromMagic_CountFirst(f, m) ==
    IF ~m.ok
    THEN [tag |-> "Err", msg |-> ErrMagicRead, args |-> <<>>, file_count |-> 0,
          pos |-> m.pos]
    ELSE CountThenMagic(m, read_exact(f, m.pos, FILE_COUNT_BYTES))

\* GrpFileReader::new after its first read: m is the read of the magic constant
NewFromMagic(f, m) ==
    IF ~m.ok
    THEN [tag |-> "Err", msg |-> ErrMagicRead, args |-> <<>>, file_count |-> 0,
          pos |-> m.pos]
    ELSE IF m.bytes # FORMAT_DESIGNER_NAME
    THEN [tag |-> "Err", msg |-> ErrMagicMismatch,
          args |-> <<m.bytes, FORMAT_DESIGNER_NAME>>, file_count |-> 0, pos |-> m.pos]
    ELSE NewFromCount(read_exact(f, m.pos, FILE_COUNT_BYTES))

\* GrpFileReader::new on a source read from its start
GrpNew(f) == NewFromMagic(f, read_exact(f, 0, Len(FORMAT_DESIGNER_NAME)))

\* where get_file_entries starts reading if it did not seek
EntriesStart_NoSeek(cur) == cur

\* the seek of get_file_entries: SeekFrom::Start(12 + 4), whatever the cursor
EntriesStart(cur) == Len(FORMAT_DESIGNER_NAME) + FILE_COUNT_BYTES

\* the first member offset without the directory size
FirstOffset_NoDirectory(n) == Len(FORMAT_DESIGNER_NAME) + FILE_COUNT_BYTES

\* the seed of current_offset: header plus the whole directory
FirstOffset(n) == Len(FORMAT_DESIGNER_NAME) + FILE_COUNT_BYTES + n * EntryBytes

\* current_offset += file_size as u64
NextOffset(current_offset, file_size) == current_offset + file_size

\* the loop of get_file_entries: `left` records still to read at cursor p;
\* nm and sz are the reads of the name and of the size of one record
RECURSIVE ReadEntries(_, _, _, _, _)
RECURSIVE EntryFromName(_, _, _, _, _)
RECURSIVE EntryFromSize(_, _, _, _, _, _)
EntryFromSize(f, left, current_offset, files, nm, sz) ==
    IF ~sz.ok
    THEN [tag |-> "Err", msg |-> ErrFileSize, val |-> <<>>, pos |-> sz.pos]
    ELSE ReadEntries(f, sz.pos, left - 1,
                     NextOffset(current_offset, u32_from_le_bytes(sz.bytes)),
                     Append(files, [name |-> nm.bytes,
                                    offset |-> current_offset,
                                    size |-> u32_from_le_bytes(sz.bytes)]))

EntryFromName(f, left, current_offset, files, nm) ==
    IF ~nm.ok
    THEN [tag |-> "Err", msg |-> ErrFileName, val |-> <<>>, pos |-> nm.pos]
    ELSE EntryFromSize(f, left, current_offset, files, nm,
                       read_exact(f, nm.pos, SizeBytes))

ReadEntries(f, p, left, current_offset, files) ==
    IF left = 0
    THEN [tag |-> "Ok", msg |-> "", val |-> files, pos |-> p]
    ELSE EntryFromName(f, left, current_offset, files, read_exact(f, p, NameBytes))

\* GrpFileReader::get_file_entries
get_file_entries(f, n, cur) ==
    ReadEntries(f, EntriesStart(cur), n, FirstOffset(n), <<>>)

\* GrpFileEntry::name: the bytes before the first zero byte, each as one char
name(e) ==
    LET zeros == {i \in 1..Len(e.name) : e.name[i] = 0}
    IN  IF zeros = {} THEN e.name
        ELSE SubSeq(e.name, 1, (CHOOSE i \in zeros : \A j \in zeros : i <= j) - 1)

\* Iterator::find that keeps the last match
FindFirst_Last(files, file_name) ==
    LET hits == {i \in 1..Len(files) : name(files[i]) = file_name}
    IN  IF hits = {} THEN <<>>
        ELSE <<files[CHOOSE i \in hits : \A j \in hits : i >= j]>>

\* Iterator::find over the entries: the first one whose name() is file_name,
\* as an Option (<<>> or <<entry>>)
FindFirst(files, file_name) ==
    LET hits == {i \in 1..Len(files) : name(files[i]) = file_name}
    IN  IF hits = {} THEN <<>>
        ELSE <<files[CHOOSE i \in hits : \A j \in hits : i <= j]>>

\* Ok(option) of find_file_entry
FoundAt(hit, p) ==
    [tag |-> IF hit = <<>> THEN "None" ELSE "Some", msg |-> "", val |-> hit,
     pos |-> p]

\* find_file_entry after `self.get_file_entries()?`: r is its result
FindIn(r, file_name) ==
    IF r.tag = "Err"
    THEN [tag |-> "Err", msg |-> r.msg, val |-> <<>>, pos |-> r.pos]
    ELSE FoundAt(FindFirst(r.val, file_name), r.pos)

\* GrpFileReader::find_file_entry
find_file_entry(f, n, cur, file_name) ==
    FindIn(get_file_entries(f, n, cur), file_name)

\* where read_file starts reading if it did not seek
ReadStart_NoSeek(cur, entry) == cur

\* the seek of read_file: SeekFrom::Start(entry.offset)
ReadStart(cur, entry) == entry.offset

\* read_file after its read_exact: r is the read of entry.size bytes
FileFromRead(r) ==
    IF ~r.ok
    THEN [tag |-> "Err", msg |-> ErrReadFile, val |-> <<>>, pos |-> r.pos]
    ELSE [tag |-> "Ok", msg |-> "", val |-> r.bytes, pos |-> r.pos]

\* GrpFileReader::read_file
read_file(f, cur, entry) ==
    FileFromRead(read_exact(f, ReadStart(cur, entry), entry.size))

\* --------------------------------------------------------- ArtFileReader

SUPPORTED_VERSION_NUMBER == WideOf(1)
VersionBytes == 4
IdBytes == 4
DimBytes == 2
TilesHeaderEnd == 8

ErrVersionRead == "Failed to read version number from .art file."
ErrUnsupported == "Unsupported version number {} (should be {})"
ErrFirstTile == "Failed to read first tile number from .art file."
ErrLastTile == "Failed to read last tile number from .art file."
ErrTileWidth == "Failed to read tile width from .art file."
ErrTileHeight == "Failed to read tile height from .art file."
PanicSubtract == "attempt to subtract with overflow"
PanicAdd == "attempt to add with overflow"
AbortAlloc == "memory allocation failed"

\* the version check that accepts every version
VersionChecked_Any(version_number, p) ==
    [tag |-> "Ok", msg |-> "", found |-> version_number,
     expected |-> SUPPORTED_VERSION_NUMBER, pos |-> p]

\* the version check of ArtFileReader::new; the error is formatted from the
\* version found and the one supported
VersionChecked(version_number, p) ==
    IF version_number # SUPPORTED_VERSION_NUMBER
    THEN [tag |-> "Err", msg |-> ErrUnsupported, found |-> version_number,
          expected |-> SUPPORTED_VERSION_NUMBER, pos |-> p]
    ELSE [tag |-> "Ok", msg |-> "", found |-> version_number,
          expected |-> SUPPORTED_VERSION_NUMBER, pos |-> p]

\* ArtFileReader::new after its read: v is the read of the version number
NewFromVersion(v) ==
    IF ~v.ok
    THEN [tag |-> "Err", msg |-> ErrVersionRead, found |-> ZeroU32,
          expected |-> ZeroU32, pos |-> v.pos]
    ELSE VersionChecked(u32_limbs_from_le_bytes(v.bytes), v.pos)

\* ArtFileReader::new on a source read from its start
ArtNew(f) == NewFromVersion(read_exact(f, 0, VersionBytes))

\* `last_tile_number - first_tile_number + 1` on u32: with overflow checks
\* (a debug build) either step panics when it leaves 0..2^32-1, without them
\* (a release build) the result wraps modulo 2^32.
tile_count(first, last, b) ==
    IF b = "debug" /\ WideLess(last, first)
    THEN [panic |-> TRUE, msg |-> PanicSubtract, count |-> ZeroU32]
    ELSE IF b = "debug" /\ add_overflows(wrapping_sub(last, first), 1)
    THEN [panic |-> TRUE, msg |-> PanicAdd, count |-> ZeroU32]
    ELSE [panic |-> FALSE, msg |-> "",
          count |-> wrapping_add(wrapping_sub(last, first), 1)]

\* Vec::with_capacity(elems) for elements of elem_bytes bytes: whether the
\* request is large enough (2 GiB or more) for the allocator to refuse it, in
\* which case the process aborts.  Smaller requests are granted.
AllocMayFail(elems, elem_bytes) ==
    WideTimes(elems, elem_bytes).hi >= Limb \div 2

\* one loop of read_tiles: `left` little-endian i16 values from cursor p;
\* r is the read of one value
RECURSIVE ReadI16Run(_, _, _, _)
RECURSIVE I16FromRead(_, _, _, _)
I16FromRead(f, left, vals, r) ==
    IF ~r.ok
    THEN [ok |-> FALSE, vals |-> <<>>, pos |-> r.pos]
    ELSE ReadI16Run(f, r.pos, wrapping_sub(left, WideOf(1)),
                    Append(vals, i16_from_le_bytes(r.bytes)))

ReadI16Run(f, p, left, vals) ==
    IF left = ZeroU32
    THEN [ok |-> TRUE, vals |-> vals, pos |-> p]
    ELSE I16FromRead(f, left, vals, read_exact(f, p, DimBytes))

\* the merge of read_tiles: zip by position, numbered from first_tile_number
\* (the two runs have the same length)
MergeTiles(first, widths, heights) ==
    [k \in 1..Len(widths) |->
        [height |-> heights[k],
         number |-> wrapping_add(first, k - 1),
         width |-> widths[k]]]

\* read_tiles after both runs: the tiles, or the panic of
\* `first_tile_number + i as u32` under overflow checks
TilesFromRuns(b, first, tc, ws, hs) ==
    IF ~hs.ok
    THEN [tag |-> "Err", msg |-> ErrTileHeight, val |-> <<>>, cap |-> tc.count,
          pos |-> hs.pos]
    ELSE IF b = "debug" /\ Len(ws.vals) > 0 /\ add_overflows(first, Len(ws.vals) - 1)
    THEN [tag |-> "Panic", msg |-> PanicAdd, val |-> <<>>, cap |-> tc.count,
          pos |-> hs.pos]
    ELSE [tag |-> "Ok", msg |-> "", val |-> MergeTiles(first, ws.vals, hs.vals),
          cap |-> tc.count, pos |-> hs.pos]

\* read_tiles after the width run ws
TilesFromWidths(f, b, first, tc, ws) ==
    IF ~ws.ok
    THEN [tag |-> "Err", msg |-> ErrTileWidth, val |-> <<>>, cap |-> tc.count,
          pos |-> ws.pos]
    ELSE TilesFromRuns(b, first, tc, ws, ReadI16Run(f, ws.pos, tc.count, <<>>))

\* read_tiles after the tile count tc was computed at cursor p.  `granted`
\* says whether the allocator grants a request it may refuse.
TilesFromCount(f, b, p, granted, first, tc) ==
    IF tc.panic
    THEN [tag |-> "Panic", msg |-> tc.msg, val |-> <<>>, cap |-> ZeroU32, pos |-> p]
    ELSE IF ~granted /\ AllocMayFail(tc.count, DimBytes)
    THEN [tag |-> "Abort", msg |-> AbortAlloc, val |-> <<>>, cap |-> tc.count,
          pos |-> p]
    ELSE TilesFromWidths(f, b, first, tc, ReadI16Run(f, p, tc.count, <<>>))

\* read_tiles after the read lst of the last tile number
TilesFromLast(f, b, granted, first, lst) ==
    IF ~lst.ok
    THEN [tag |-> "Err", msg |-> ErrLastTile, val |-> <<>>, cap |-> ZeroU32,
          pos |-> lst.pos]
    ELSE TilesFromCount(f, b, lst.pos, granted, first,
                        tile_count(first, u32_limbs_from_le_bytes(lst.bytes), b))

\* read_tiles after the read fst of the first tile number
TilesFromFirst(f, b, granted, fst) ==
    IF ~fst.ok
    THEN [tag |-> "Err", msg |-> ErrFirstTile, val |-> <<>>, cap |-> ZeroU32,
          pos |-> fst.pos]
    ELSE TilesFromLast(f, b, granted, u32_limbs_from_le_bytes(fst.bytes),
                       read_exact(f, fst.pos, IdBytes))

\* the seek of read_tiles: SeekFrom::Start(4 + 4), whatever the cursor
TilesStart(cur) == TilesHeaderEnd

\* ArtFileReader::read_tiles
read_tiles(f, b, cur, granted) ==
    TilesFromFirst(f, b, granted, read_exact(f, TilesStart(cur), IdBytes))

\* ------------------------------------------------------------- main.rs

\* the one path that File::open finds, and the one fs::write can write
InputPath == "in.grp"
OutputPath == "out.bin"

ErrNoArguments == "No arguments provided."
ErrMissingArguments == "Missing arguments."
ErrUnknownCommand == "Unknown command: {}"
PanicOpen == "File::open(..).unwrap() on an Err value"
PanicWrite == "fs::write(..).unwrap() on an Err value"

\* the characters of the entry names the command lines use
Chars(s) ==
    CASE s = "A" -> <<65>>
      [] s = "B" -> <<66>>
      [] s = "ABCDEFGHIJKL" -> <<65, 66, 67, 68, 69, 70, 71, 72, 73, 74, 75, 76>>
      [] OTHER -> <<>>

\* one turn of the option loop of run
SetOption(acc, option, value) ==
    CASE option = "--entry" -> [acc EXCEPT !.entry = <<value>>]
      [] option = "--input-file" -> [acc EXCEPT !.input = <<value>>]
      [] option = "--output-file" -> [acc EXCEPT !.output = <<value>>]
      [] OTHER -> acc

\* the option loop of run: pairs (option, value) while both are there
RECURSIVE ParseOptions(_, _, _)
ParseOptions(args, i, acc) ==
    IF i + 1 > Len(args)
    THEN acc
    ELSE ParseOptions(args, i + 2, SetOption(acc, args[i], args[i + 1]))

\* what run did: its Result, what it printed and what it wrote
Ran(tag, msg, args, printed, written) ==
    [tag |-> tag, msg |-> msg, args |-> args, printed |-> printed,
     written |-> written]

\* `let file = grp_reader.read_file(&file_entry)?;` and what follows; rd is the
\* result of read_file
ExtractFromRead(output_file_path, rd) ==
    IF rd.tag = "Err"
    THEN Ran("Err", rd.msg, <<>>, <<>>, <<>>)
    ELSE IF output_file_path # OutputPath
    THEN Ran("Panic", PanicWrite, <<>>, <<Len(rd.val)>>, <<>>)
    ELSE Ran("Ok", "", <<>>, <<Len(rd.val)>>, <<rd.val>>)

\* `if let Ok(Some(file_entry)) = grp_reader.find_file_entry(..)`: found is the
\* result of find_file_entry; anything but Ok(Some) skips the body
ExtractFromFind(f, output_file_path, found) ==
    IF found.tag # "Some"
    THEN Ran("Ok", "", <<>>, <<>>, <<>>)
    ELSE ExtractFromRead(output_file_path, read_file(f, found.pos, found.val[1]))

\* `let mut grp_reader = GrpFileReader::new(&file)?;` and what follows; new is
\* the result of GrpFileReader::new
ExtractFromNew(f, entry_file_name, output_file_path, new) ==
    IF new.tag = "Err"
    THEN Ran("Err", new.msg, new.args, <<>>, <<>>)
    ELSE ExtractFromFind(f, output_file_path,
                         find_file_entry(f, new.file_count, new.pos,
                                         Chars(entry_file_name)))

\* the grp-extract arm of run, once the three options are known
Extract(f, entry_file_name, grp_file_path, output_file_path) ==
    IF grp_file_path # InputPath
    THEN Ran("Panic", PanicOpen, <<>>, <<>>, <<>>)
    ELSE ExtractFromNew(f, entry_file_name, output_file_path, GrpNew(f))

\* the grp-extract arm of run; opts are the parsed options
RunExtract(f, opts) ==
    IF opts.entry = <<>> \/ opts.input = <<>> \/ opts.output = <<>>
    THEN Ran("Err", ErrMissingArguments, <<>>, <<>>, <<>>)
    ELSE Extract(f, opts.entry[1], opts.input[1], opts.output[1])

\* run
run(args, f) ==
    IF Len(args) = 0
    THEN Ran("Err", ErrNoArguments, <<>>, <<>>, <<>>)
    ELSE IF args[1] # "grp-extract"
    THEN Ran("Err", ErrUnknownCommand, <<args[1]>>, <<>>, <<>>)
    ELSE RunExtract(f, ParseOptions(args, 2,
                       [entry |-> <<>>, input |-> <<>>, output |-> <<>>]))

\* the exit status of the process: main returns () whatever run returned, so the
\* status is 0 unless a panic unwound out of main (status 101)
ExitStatus(r) == IF r.tag = "Panic" THEN 101 ELSE 0

\* main after run: `if let Err(err) = run() { eprintln!("Error: {}", err) }`;
\* a panic prints its message to stderr too
MainFromRun(r) ==
    [tag |-> r.tag,
     status |-> ExitStatus(r),
     stderr |-> IF r.tag = "Ok" THEN <<>>
                ELSE <<[msg |-> r.msg, args |-> r.args]>>,
     printed |-> r.printed,
     written |-> r.written]

\* main
main(args, f) == MainFromRun(run(args, f))

\* -------------------------------------------------------------- inputs

\* u32::to_le_bytes, to lay out the sources
le32(n) ==
    <<n % 256, (n \div 256) % 256, (n \div 65536) % 256, (n \div 16777216) % 256>>

\* i16::to_le_bytes
le16(v) ==
    LET u == IF v < 0 THEN v + 65536 ELSE v
    IN  <<u % 256, u \div 256>>

\* u32::to_le_bytes at full width
le32_limbs(a) ==
    <<a.lo % 256, a.lo \div 256, a.hi % 256, a.hi \div 256>>

AsFile(bytes) == [data |-> bytes, tail |-> 0]

\* the source without its last t bytes
Truncated(bytes, t) ==
    IF t >= Len(bytes) THEN <<>> ELSE SubSeq(bytes, 1, Len(bytes) - t)

\* how many bytes are cut off the end: none, inside a 4-byte field, inside a name
TruncSet == {0, 1, 5}
\* every cut of a header and what follows it
TruncMax == 22

\* 12-byte name fields: "A", "A" with bytes after its terminator, a Latin-1
\* letter, and a name that fills the field
NameA == <<65, 0, 0, 0, 0, 0, 0, 0, 0, 0, 0, 0>>
NameA0B == <<65, 0, 66, 0, 0, 0, 0, 0, 0, 0, 0, 0>>
NameE9 == <<233, 0, 0, 0, 0, 0, 0, 0, 0, 0, 0, 0>>
NameFull == <<65, 66, 67, 68, 69, 70, 71, 72, 73, 74, 75, 76>>
NamePool == {NameA, NameA0B, NameE9, NameFull}

\* a declared size that needs the high byte, a declared count that needs the
\* second byte
BigSize == 16777217
BigCount == 258
DeclCounts == (0..MaxDeclCount) \cup {BigCount}

\* directory records (name field, declared size)
EntryPool ==
    {[name |-> NameA, size |-> 2], [name |-> NameA0B, size |-> 1],
     [name |-> NameE9, size |-> 0], [name |-> NameFull, size |-> 1],
     [name |-> NameA, size |-> BigSize]}
EntrySeqs == UNION {[1..k -> EntryPool] : k \in 0..MaxEntries}

RECURSIVE DirBytes(_)
DirBytes(es) ==
    IF es = <<>> THEN <<>>
    ELSE Head(es).name \o le32(Head(es).size) \o DirBytes(Tail(es))

\* payload bytes "xyz..."
Payload(n) == [i \in 1..n |-> 119 + i]

BadMagic == <<75, 101, 110, 83, 105, 108, 118, 101, 114, 109, 97, 78>>

GrpBytes(magic, n, es, p) == magic \o le32(n) \o DirBytes(es) \o Payload(p)

GrpFiles ==
    {AsFile(Truncated(GrpBytes(FORMAT_DESIGNER_NAME, n, es, p), t)) :
        n \in DeclCounts, es \in EntrySeqs, p \in {0, 1, MaxPayload}, t \in TruncSet}
    \cup
    {AsFile(Truncated(GrpBytes(BadMagic, n, <<>>, p), t)) :
        n \in DeclCounts, p \in {0, 1}, t \in TruncSet}

\* the names looked up: "A", "B", "A\0B", the Latin-1 letter, a letter outside
\* Latin-1, the empty name and the full-width name
Queries ==
    {<<65>>, <<66>>, <<65, 0, 66>>, <<233>>, <<8364>>, <<>>,
     <<65, 66, 67, 68, 69, 70, 71, 72, 73, 74, 75, 76>>}

\* tile ranges (first, last): every pair of small numbers, and pairs that
\* reach the end of u32: one tile at the end, the full range, and reversed
\* ranges whose wrapped count is small and huge
SmallIds == {WideOf(0), WideOf(1), WideOf(2), WideOf(100)}
RangePool ==
    (SmallIds \X SmallIds)
    \cup {<<MaxU32, MaxU32>>, <<ZeroU32, MaxU32>>, <<MaxU32, ZeroU32>>,
          <<MaxU32, WideOf(1)>>}
\* tile dimensions: negative, zero and one that needs the high byte
DimPool == {-2, 0, 300}
DimSeqs == UNION {[1..k -> DimPool] : k \in 0..MaxVals}

RECURSIVE DimBytesOf(_)
DimBytesOf(vs) ==
    IF vs = <<>> THEN <<>> ELSE le16(Head(vs)) \o DimBytesOf(Tail(vs))

ArtBytes(version, reserved, first, last, vs) ==
    le32_limbs(version) \o le32_limbs(reserved) \o le32_limbs(first)
    \o le32_limbs(last) \o DimBytesOf(vs)

\* a catalog of all 2^32 tile numbers, every dimension zero: the header and
\* 2 * 2^32 * 2 zero bytes
FullRangeCatalog ==
    [data |-> ArtBytes(SUPPORTED_VERSION_NUMBER, ZeroU32, ZeroU32, MaxU32, <<>>),
     tail |-> 4 * Limb]

ArtFiles ==
    {AsFile(ArtBytes(SUPPORTED_VERSION_NUMBER, ZeroU32, r[1], r[2], vs)) :
        r \in RangePool, vs \in DimSeqs}
    \cup
    {AsFile(Truncated(ArtBytes(v, r, WideOf(0), WideOf(1), <<300, -2, 0, 300>>), t)) :
        v \in {WideOf(0), WideOf(1), WideOf(2), WideOf(256), Wide(1, 1)},
        r \in {WideOf(0), WideOf(7), MaxU32}, t \in 0..TruncMax}
    \cup
    {FullRangeCatalog}

\* command lines
ExtractArgs(entry, input, output) ==
    <<"grp-extract", "--entry", entry, "--input-file", input, "--output-file", output>>

Argvs ==
    {ExtractArgs(e, InputPath, OutputPath) : e \in {"A", "B", "ABCDEFGHIJKL"}}
    \cup
    {<<>>, <<"art-list">>, <<"grp-extract">>,
     <<"grp-extract", "--entry", "A", "--input-file", InputPath>>,
     <<"grp-extract", "--entry", "A", "--input-file", InputPath, "--output-file">>,
     <<"grp-extract", "--verbose", "1", "--output-file", OutputPath,
       "--input-file", InputPath, "--entry", "B", "--entry", "A">>,
     ExtractArgs("A", "missing.grp", OutputPath),
     ExtractArgs("A", InputPath, "nodir/out.bin")}

CliFiles ==
    {AsFile(Truncated(GrpBytes(FORMAT_DESIGNER_NAME, n, es, MaxPayload), t)) :
        n \in 0..MaxDeclCount, es \in EntrySeqs, t \in TruncSet}
    \cup
    {AsFile(GrpBytes(BadMagic, 0, <<>>, 0)), AsFile(<<>>)}

\* ------------------------------------------------------- state machine

NoResult == [op |-> "none", tag |-> "none"]

InitGrp ==
    /\ mode = "grp"
    /\ build = "release"
    /\ file \in GrpFiles
    /\ argv = <<>>

InitArt ==
    /\ mode = "art"
    /\ build \in {"debug", "release"}
    /\ file \in ArtFiles
    /\ argv = <<>>

InitCli ==
    /\ mode = "cli"
    /\ build = "release"
    /\ file \in CliFiles
    /\ argv \in Argvs

Init ==
    /\ (InitGrp \/ InitArt \/ InitCli)
    /\ opened = FALSE
    /\ file_count = 0
    /\ pos = 0
    /\ held = {}
    /\ result = NoResult

\* the reader state and the result after GrpFileReader::new returned r
GrpOpened(r) ==
    /\ opened' = (r.tag = "Ok")
    /\ file_count' = r.file_count
    /\ pos' = r.pos
    /\ result' = [op |-> "new", tag |-> r.tag, msg |-> r.msg, args |-> r.args,
                  arg |-> <<>>, val |-> <<>>]

\* GrpFileReader::new(&file)
GrpOpen ==
    /\ mode = "grp"
    /\ result.op = "none"
    /\ GrpOpened(GrpNew(file))
    /\ UNCHANGED <<mode, build, file, held, argv>>

\* the caller's entries and the result after get_file_entries returned r; the
\* result records the cursor the call started from
GrpListed(r) ==
    /\ pos' = r.pos
    /\ held' = IF r.tag = "Ok" THEN {r.val[i] : i \in 1..Len(r.val)} ELSE held
    /\ result' = [op |-> "get_file_entries", tag |-> r.tag, msg |-> r.msg,
                  arg |-> <<>>, val |-> r.val, cur |-> pos]

\* reader.get_file_entries()
GrpGetFileEntries ==
    /\ mode = "grp"
    /\ opened
    /\ GrpListed(get_file_entries(file, file_count, pos))
    /\ UNCHANGED <<mode, build, file, opened, file_count, argv>>

\* the caller's entries and the result after find_file_entry(q) returned r
GrpFound(q, r) ==
    /\ pos' = r.pos
    /\ held' = IF r.tag = "Some" THEN held \cup {r.val[1]} ELSE held
    /\ result' = [op |-> "find_file_entry", tag |-> r.tag, msg |-> r.msg,
                  arg |-> q, val |-> r.val]

\* reader.find_file_entry(q)
GrpFindFileEntry ==
    /\ mode = "grp"
    /\ opened
    /\ \E q \in Queries : GrpFound(q, find_file_entry(file, file_count, pos, q))
    /\ UNCHANGED <<mode, build, file, opened, file_count, argv>>

\* the result after read_file(&e) returned r
GrpRead(e, r) ==
    /\ pos' = r.pos
    /\ result' = [op |-> "read_file", tag |-> r.tag, msg |-> r.msg, arg |-> e,
                  val |-> r.val]

\* reader.read_file(&e) for an entry the caller holds
GrpReadFile ==
    /\ mode = "grp"
    /\ opened
    /\ \E e \in held : GrpRead(e, read_file(file, pos, e))
    /\ UNCHANGED <<mode, build, file, opened, file_count, held, argv>>

\* the reader state and the result after ArtFileReader::new returned r
ArtOpened(r) ==
    /\ opened' = (r.tag = "Ok")
    /\ pos' = r.pos
    /\ result' = [op |-> "new", tag |-> r.tag, msg |-> r.msg, found |-> r.found,
                  expected |-> r.expected]

\* ArtFileReader::new(&file)
ArtOpen ==
    /\ mode = "art"
    /\ result.op = "none"
    /\ ArtOpened(ArtNew(file))
    /\ UNCHANGED <<mode, build, file, file_count, held, argv>>

\* the result after read_tiles returned (or the process ended with) r
ArtListed(r) ==
    /\ pos' = r.pos
    /\ result' = [op |-> "read_tiles", tag |-> r.tag, msg |-> r.msg, val |-> r.val,
                  cap |-> r.cap]

\* reader.read_tiles(); a panic or an abort ends the process
ArtReadTiles ==
    /\ mode = "art"
    /\ opened
    /\ result.tag \notin {"Panic", "Abort"}
    /\ \E granted \in BOOLEAN : ArtListed(read_tiles(file, build, pos, granted))
    /\ UNCHANGED <<mode, build, file, opened, file_count, held, argv>>

\* what the process left behind
CliExited(r) ==
    result' = [op |-> "main", tag |-> r.tag, status |-> r.status,
               stderr |-> r.stderr, printed |-> r.printed, written |-> r.written]

\* the process: main with the command line argv
CliMain ==
    /\ mode = "cli"
    /\ result.op = "none"
    /\ CliExited(main(argv, file))
    /\ UNCHANGED <<mode, build, file, opened, file_count, pos, held, argv>>

Next ==
    \/ GrpOpen
    \/ GrpGetFileEntries
    \/ GrpFindFileEntry
    \/ GrpReadFile
    \/ ArtOpen
    \/ ArtReadTiles
    \/ CliMain

Spec == Init /\ [][Next]_vars

\* ------------------------------------------------------------- claims
\* What the claims say is written from the layout of the source, not with the
\* operators of the readers.

\* the little-endian u32 at offset p (below 2^31)
U32At(f, p) ==
    ByteAt(f, p) + 256 * ByteAt(f, p + 1) + 65536 * ByteAt(f, p + 2)
    + 16777216 * ByteAt(f, p + 3)

\* directory record i (1-based): its name field and its declared size
RecordName(f, i) == BytesAt(f, 16 + 16 * (i - 1), 12)
RecordSize(f, i) == U32At(f, 16 + 16 * (i - 1) + 12)

\* the sum of the declared sizes of records 1..i
RECURSIVE SizesBefore(_, _)
SizesBefore(f, i) == IF i = 0 THEN 0 ELSE SizesBefore(f, i - 1) + RecordSize(f, i)

\* the entry the directory describes at index i of n
EntryOf(f, n, i) ==
    [name |-> RecordName(f, i),
     offset |-> 16 + 16 * n + SizesBefore(f, i - 1),
     size |-> RecordSize(f, i)]

\* the source holds the header and all n directory records
DirectoryComplete(f, n) == HasBytes(f, 16 + 16 * n)

\* the name field decodes to the string q: q has no zero, the field starts
\* with q, and q ends at a zero byte or at the end of the field
Decodes(field, q) ==
    /\ Len(q) <= 12
    /\ \A i \in 1..Len(q) : q[i] # 0 /\ field[i] = q[i]
    /\ (Len(q) = 12 \/ field[Len(q) + 1] = 0)

\* C1: for an archive with a valid header and a complete directory of
\* N = file_count records, get_file_entries returns exactly N entries in
\* directory order, the first at offset 16 + 16 * N, and each next one at the
\* previous offset plus the previous size, so that offsets never decrease.
C1_EntriesChain ==
    (mode = "grp" /\ result.op = "get_file_entries"
        /\ DirectoryComplete(file, file_count))
    => /\ result.tag = "Ok"
       /\ Len(result.val) = file_count
       /\ \A i \in 1..Len(result.val) :
            /\ result.val[i].name = RecordName(file, i)
            /\ result.val[i].size = RecordSize(file, i)
       /\ (file_count > 0 => result.val[1].offset = 16 + 16 * file_count)
       /\ \A i \in 1..(Len(result.val) - 1) :
            /\ result.val[i].offset + result.val[i].size = result.val[i + 1].offset
            /\ result.val[i].offset <= result.val[i + 1].offset

\* C1 witness: a listing of two members, the first of them not empty
C1_Witness ==
    /\ mode = "grp" /\ result.op = "get_file_entries" /\ result.tag = "Ok"
    /\ Len(result.val) = 2
    /\ result.val[1].size > 0
    /\ result.val[2].offset > result.val[1].offset

\* C4: find_file_entry(name) returns the first entry in directory order whose
\* decoded name equals name; it returns absent exactly when the whole
\* directory was read and no entry matches; and it returns an error whenever
\* a directory read fails, even if a matching entry precedes the failure.
C4_FindFirstMatch ==
    (mode = "grp" /\ result.op = "find_file_entry")
    => LET q == result.arg
           complete == DirectoryComplete(file, file_count)
           hits == IF complete
                   THEN {i \in 1..file_count : Decodes(RecordName(file, i), q)}
                   ELSE {}
       IN  /\ (~complete => result.tag = "Err" /\ result.val = <<>>)
           /\ (complete /\ hits = {} => result.tag = "None" /\ result.val = <<>>)
           /\ (complete /\ hits # {} =>
                 /\ result.tag = "Some"
                 /\ \E i \in hits :
                      /\ \A j \in hits : i <= j
                      /\ result.val = <<EntryOf(file, file_count, i)>>)

\* C4 witness: two records decode to the name looked up and the first is found
C4_Witness ==
    /\ mode = "grp" /\ result.op = "find_file_entry" /\ result.tag = "Some"
    /\ file_count = 2 /\ DirectoryComplete(file, 2)
    /\ Decodes(RecordName(file, 1), result.arg)
    /\ Decodes(RecordName(file, 2), result.arg)
    /\ RecordName(file, 1) # RecordName(file, 2)
    /\ result.val[1].name = RecordName(file, 1)

\* the number of bytes the source holds from offset p on
BytesFrom(f, p) == IF p >= Len(f.data) THEN 0 ELSE Len(f.data) - p

\* C5: for an entry e that the reader returned, read_file(e) returns exactly
\* e.size bytes, those of the source at [e.offset, e.offset + e.size), or, when
\* the source holds fewer than e.size bytes from e.offset, an error and no
\* bytes.  (An empty member is read with success wherever its offset lies.)
C5_ReadFileExact ==
    (mode = "grp" /\ result.op = "read_file")
    => LET e == result.arg
       IN  IF BytesFrom(file, e.offset) >= e.size
           THEN /\ result.tag = "Ok"
                /\ Len(result.val) = e.size
                /\ \A i \in 1..e.size : result.val[i] = ByteAt(file, e.offset + i - 1)
           ELSE result.tag = "Err" /\ result.val = <<>>

\* C5 witness: the two payload bytes of a member that is not the first were read
C5_Witness ==
    /\ mode = "grp" /\ result.op = "read_file" /\ result.tag = "Ok"
    /\ Len(result.val) = 2
    /\ result.arg.offset > 16 + 16 * file_count

\* C5: an empty member whose offset lies past the end of the source was read
\* as no bytes
C5_EmptyMemberPastEnd ==
    /\ mode = "grp" /\ result.op = "read_file" /\ result.tag = "Ok"
    /\ result.arg.size = 0
    /\ result.arg.offset > Len(file.data)

\* C5: a member cut short was refused
C5_ShortMemberRefused ==
    /\ mode = "grp" /\ result.op = "read_file" /\ result.tag = "Err"
    /\ result.arg.size > 0
    /\ result.arg.offset < Len(file.data)

\* C6: whatever calls came before and wherever they left the cursor, every
\* get_file_entries call returns what a call made right after construction
\* (cursor 16) returns.
C6_ListingIndependentOfCursor ==
    (mode = "grp" /\ result.op = "get_file_entries")
    => LET fresh == get_file_entries(file, file_count, GrpNew(file).pos)
       IN  /\ result.tag = fresh.tag
           /\ result.msg = fresh.msg
           /\ result.val = fresh.val

\* C6 witness: a listing of a non-empty directory started from a cursor that an
\* earlier read_file had moved beyond the directory
C6_Witness ==
    /\ mode = "grp" /\ result.op = "get_file_entries" /\ result.tag = "Ok"
    /\ Len(result.val) > 0
    /\ result.cur > 16 + 16 * file_count

\* C7: GrpFileReader::new on a source whose first 12 bytes are not the magic
\* constant returns the mismatch error with the cursor at 12: neither the file
\* count nor a directory byte was taken from the reader; on a source shorter
\* than 16 bytes that begins like the magic constant it returns a short-read
\* error; otherwise it succeeds with file_count the little-endian u32 at
\* offset 12.
C7_NewChecksMagicFirst ==
    (mode = "grp" /\ result.op = "new")
    => LET present == IF Len(file.data) < 12 THEN Len(file.data) ELSE 12
           prefix_ok == \A i \in 1..present : file.data[i] = FORMAT_DESIGNER_NAME[i]
       IN  /\ (HasBytes(file, 12) /\ ~prefix_ok =>
                 /\ result.tag = "Err" /\ result.msg = ErrMagicMismatch
                 /\ result.args = <<BytesAt(file, 0, 12), FORMAT_DESIGNER_NAME>>
                 /\ pos = 12 /\ ~opened)
           /\ (~HasBytes(file, 16) /\ prefix_ok =>
                 /\ result.tag = "Err"
                 /\ result.msg \in {ErrMagicRead, ErrFileCount}
                 /\ ~opened)
           /\ (HasBytes(file, 16) /\ prefix_ok =>
                 /\ result.tag = "Ok" /\ opened
                 /\ file_count = U32At(file, 12) /\ pos = 16)

\* C7 witness: the magic of a source with a whole header does not match
C7_Witness ==
    /\ mode = "grp" /\ result.op = "new" /\ result.msg = ErrMagicMismatch
    /\ HasBytes(file, 16)

\* the little-endian u32 at offset p, at full width
WideAt(f, p) ==
    [hi |-> ByteAt(f, p + 2) + 256 * ByteAt(f, p + 3),
     lo |-> ByteAt(f, p) + 256 * ByteAt(f, p + 1)]

\* the little-endian i16 at offset p
I16At(f, p) ==
    LET u == ByteAt(f, p) + 256 * ByteAt(f, p + 1)
    IN  IF u >= 32768 THEN u - 65536 ELSE u

\* the range header of a catalog: first and last tile number
FirstId(f) == WideAt(f, 8)
LastId(f) == WideAt(f, 12)

\* last - first + 1 as a natural number, for first <= last (up to 2^32)
RangeCount(f) ==
    WidePlus(wrapping_sub(LastId(f), FirstId(f)), WideOf(1))

\* the source holds the 16 header bytes and both arrays of RangeCount values
ArraysComplete(f) ==
    WideLe(WidePlus(WideOf(16), WideTimes(RangeCount(f), 4)), FileLenWide(f))

\* C8: ArtFileReader::new on a source whose u32 at offset 0 is not 1 returns
\* the unsupported-version error carrying the number found and the number
\* expected, and produces no reader, so the range header is never read; on
\* version 1 it succeeds whatever the reserved field at offset 4 holds.
C8_NewChecksVersion ==
    /\ (mode = "art" /\ result.op = "new" /\ HasBytes(file, 4))
       => IF WideAt(file, 0) # WideOf(1)
          THEN /\ result.tag = "Err" /\ result.msg = ErrUnsupported
               /\ result.found = WideAt(file, 0)
               /\ result.expected = WideOf(1)
               /\ ~opened
          ELSE result.tag = "Ok" /\ opened
    /\ (mode = "art" /\ ~opened) => (result.op # "read_tiles" /\ pos <= 4)

\* C8 witness: version 2 was refused on a catalog that has a range header
C8_Witness ==
    /\ mode = "art" /\ result.op = "new" /\ result.tag = "Err"
    /\ result.found = WideOf(2)
    /\ HasBytes(file, 16)

\* the reserved field does not decide: a version-1 catalog whose reserved
\* field is not zero was accepted
C8_ReservedIgnored ==
    /\ mode = "art" /\ result.op = "new" /\ result.tag = "Ok"
    /\ WideAt(file, 4) # ZeroU32

\* C2 as the specification states it: for a range header with
\* last_id < first_id, read_tiles returns the format error "invalid tile
\* range"; it does not panic, and it sizes no allocation by a wrapped count.
C2_Original ==
    (mode = "art" /\ result.op = "read_tiles" /\ HasBytes(file, 16)
        /\ WideLess(LastId(file), FirstId(file)))
    => /\ result.tag = "Err"
       /\ result.msg = "invalid tile range"
       /\ result.cap = ZeroU32

\* C2, what the code does: a reversed range was accepted, with the tiles of a
\* wrapped count
C2_ReversedRangeAccepted ==
    /\ mode = "art" /\ result.op = "read_tiles" /\ HasBytes(file, 16)
    /\ WideLess(LastId(file), FirstId(file))
    /\ result.tag = "Ok"

\* C3 as the specification states it: for a version-1 catalog with complete
\* width and height runs, read_tiles returns exactly last_id - first_id + 1
\* tiles, the k-th (from 0) numbered first_id + k with the k-th value of the
\* run of widths at offset 16 and the k-th value of the run of heights after
\* it, unchanged.  (Stated for first_id <= last_id, where that count is the
\* number of tiles of the range.)
C3_Original ==
    (mode = "art" /\ result.op = "read_tiles" /\ HasBytes(file, 16)
        /\ WideLe(FirstId(file), LastId(file)) /\ ArraysComplete(file))
    => /\ result.tag = "Ok"
       /\ WideOf(Len(result.val)) = RangeCount(file)
       /\ \A k \in 1..Len(result.val) :
            /\ result.val[k].number = WidePlus(FirstId(file), WideOf(k - 1))
            /\ result.val[k].width = I16At(file, 16 + 2 * (k - 1))
            /\ result.val[k].height =
                   I16At(file, 16 + 2 * Len(result.val) + 2 * (k - 1))

\* C3, what the code does: the complete catalog of the full range 0..2^32-1
\* was read as a catalog of no tiles
C3_FullRangeReadAsEmpty ==
    /\ mode = "art" /\ result.op = "read_tiles" /\ result.tag = "Ok"
    /\ FirstId(file) = ZeroU32 /\ LastId(file) = MaxU32
    /\ ArraysComplete(file)
    /\ result.val = <<>>

\* C3 for ranges of fewer than 2^32 tiles: what C3_Original states, when
\* last_id - first_id + 1 fits u32
C3_PairedBelowFullRange ==
    (mode = "art" /\ result.op = "read_tiles" /\ HasBytes(file, 16)
        /\ WideLe(FirstId(file), LastId(file)) /\ ArraysComplete(file)
        /\ RangeCount(file).hi < Limb)
    => /\ result.tag = "Ok"
       /\ WideOf(Len(result.val)) = RangeCount(file)
       /\ \A k \in 1..Len(result.val) :
            /\ result.val[k].number = WidePlus(FirstId(file), WideOf(k - 1))
            /\ result.val[k].width = I16At(file, 16 + 2 * (k - 1))
            /\ result.val[k].height =
                   I16At(file, 16 + 2 * Len(result.val) + 2 * (k - 1))

\* C9 as the specification states it: get_file_entries and read_tiles (on a
\* range with first_id <= last_id) return no partial sequence: when the source
\* ends before the declared records or values, the call returns an error and
\* nothing else, and a success has exactly file_count entries, or exactly
\* last_id - first_id + 1 tiles.
C9_Original ==
    /\ (mode = "grp" /\ result.op = "get_file_entries")
       => /\ (~DirectoryComplete(file, file_count)
                => result.tag = "Err" /\ result.val = <<>>)
          /\ (result.tag = "Ok" => Len(result.val) = file_count)
    /\ (mode = "art" /\ result.op = "read_tiles" /\ HasBytes(file, 16)
          /\ WideLe(FirstId(file), LastId(file)))
       => /\ (~ArraysComplete(file) => result.tag = "Err" /\ result.val = <<>>)
          /\ (result.tag = "Ok" => WideOf(Len(result.val)) = RangeCount(file))

\* C9, what the code does: a catalog that declares 2^32 tiles and holds none of
\* their values was read with success
C9_TruncatedReadAsSuccess ==
    /\ mode = "art" /\ result.op = "read_tiles" /\ result.tag = "Ok"
    /\ WideLe(FirstId(file), LastId(file))
    /\ ~ArraysComplete(file)

\* C9 for the archive reader alone
C9_ArchiveListingWhole ==
    (mode = "grp" /\ result.op = "get_file_entries")
    => /\ (~DirectoryComplete(file, file_count)
             => result.tag = "Err" /\ result.val = <<>>)
       /\ (result.tag = "Ok" => Len(result.val) = file_count)

\* a grp-extract command line with its three options, on the archive that exists
IsExtract(args) ==
    /\ Len(args) = 7
    /\ args[1] = "grp-extract"
    /\ args[2] = "--entry" /\ args[4] = "--input-file" /\ args[6] = "--output-file"
    /\ args[5] = InputPath

\* the archive header is whole and carries the magic constant
HeaderOk(f) == HasBytes(f, 16) /\ BytesAt(f, 0, 12) = FORMAT_DESIGNER_NAME

\* the indices of the records that decode to q, in a complete directory
Hits(f, q) == {i \in 1..U32At(f, 12) : Decodes(RecordName(f, i), q)}

\* the entry that looking up q finds
FirstHit(f, q) ==
    EntryOf(f, U32At(f, 12),
            CHOOSE i \in Hits(f, q) : \A j \in Hits(f, q) : i <= j)

\* one of the reader calls of grp-extract fails on f when looking up q
ReaderFails(f, q) ==
    \/ ~HeaderOk(f)
    \/ ~DirectoryComplete(f, U32At(f, 12))
    \/ /\ Hits(f, q) # {}
       /\ BytesFrom(f, FirstHit(f, q).offset) < FirstHit(f, q).size

\* C10 as the specification states it: grp-extract reports every reader error
\* and exits with a non-zero status, an error of find_file_entry included, and
\* it writes the output file only after find_file_entry and read_file both
\* succeeded.
C10_Original ==
    (mode = "cli" /\ result.op = "main" /\ IsExtract(argv))
    => /\ (ReaderFails(file, Chars(argv[3]))
             => result.stderr # <<>> /\ result.status # 0)
       /\ (result.written # <<>>
             => /\ ~ReaderFails(file, Chars(argv[3]))
                /\ Hits(file, Chars(argv[3])) # {}
                /\ result.written =
                     <<BytesAt(file, FirstHit(file, Chars(argv[3])).offset,
                               FirstHit(file, Chars(argv[3])).size)>>)

\* C10, what the code does: the directory could not be read, nothing was
\* reported and the process exited with status 0
C10_FindErrorIgnored ==
    /\ mode = "cli" /\ result.op = "main" /\ IsExtract(argv)
    /\ HeaderOk(file)
    /\ ~DirectoryComplete(file, U32At(file, 12))
    /\ result.stderr = <<>>
    /\ result.status = 0

\* C10, the part that holds: the output file is written only after both calls
\* succeeded, with the bytes of the entry found
C10_WrittenOnlyAfterSuccess ==
    (mode = "cli" /\ result.op = "main" /\ IsExtract(argv)
        /\ result.written # <<>>)
    => /\ ~ReaderFails(file, Chars(argv[3]))
       /\ Hits(file, Chars(argv[3])) # {}
       /\ result.written =
            <<BytesAt(file, FirstHit(file, Chars(argv[3])).offset,
                      FirstHit(file, Chars(argv[3])).size)>>

\* C10: a reported reader error still ends with status 0
C10_ReportedErrorExitsZero ==
    /\ mode = "cli" /\ result.op = "main" /\ IsExtract(argv)
    /\ ~HeaderOk(file)
    /\ result.stderr # <<>>
    /\ result.status = 0

====
